---- MODULE Spec2Model ----
(***************************************************************************)
(* Model of asteroid01.py: the Model / View / Controller classes and the   *)
(* main loop Controller.run().                                             *)
(*                                                                         *)
(* Time is counted in integer ticks of 1/40 s, so that framerate (1/20 s)  *)
(* is 2 ticks.  The wall clock `now` never goes backwards; every call of   *)
(* time.time() may find it advanced by 0..MaxDelay ticks since the         *)
(* previous statement, and time.sleep(r) advances it by r plus an          *)
(* oversleep of 0..MaxOver ticks.                                          *)
(*                                                                         *)
(* Two specifications:                                                     *)
(*   Spec      - one execution of Controller.run(), statement by statement *)
(*   SpecCalls - the methods called directly, in any order and on any      *)
(*               object state they produce (an over-approximation of run   *)
(*               in which Model.update also runs on a finished model)      *)
(***************************************************************************)
EXTENDS Integers, Sequences, FiniteSets, TLC

\* ---- bounds -----------------------------------------------------------
MaxDelay == 3     \* largest clock advance seen by one time.time() call
MaxOver  == 1     \* largest oversleep of one time.sleep() call
MaxIter  == 4     \* iterations of the main loop that are explored
MaxCalls == 3     \* direct method calls explored by SpecCalls

\* ---- program constants --------------------------------------------------
\* Controller.framerate = 1/20 (true division, the documented float), in
\* ticks of 1/40 s
framerate == 2

Keys   == {"", "a", "b"}      \* win.checkKey(): "" when no key was pressed
Clicks == {"None", "pt"}      \* win.checkMouse(): None or the clicked Point

VARIABLES
  pc,           \* position in Controller.run() / last direct call
  now,          \* the wall clock read by time.time()
  start_time,   \* Controller.start_time
  loop_start,   \* Controller.update: local loop_start
  loop_end,     \* Controller.update_time: local loop_end
  sleep_req,    \* argument of the last time.sleep() of this iteration, 0 if not called
  model_time,   \* Model.time
  model_done,   \* Model.done
  observables,  \* Model.observables
  observed,     \* View.observed: << >> is None, <<o>> the dict o
  time_text,    \* View.time_text: the integer shown after 'Time: '
  done_text,    \* View.done_text: the boolean shown after 'Done: '
  c_done,       \* Controller.done
  click,        \* Controller.click
  key,          \* Controller.key
  u_done,       \* value returned by the last Model.update
  prev_done,    \* Model.done when the last Model.update was entered
  iter,         \* number of Controller.update() calls started
  polls,        \* number of check_user_input() calls
  renders,      \* number of View.update() calls
  inits,        \* number of View.initialize() calls
  closes,       \* number of win.close() calls
  waits,        \* number of win.getMouse() calls that returned
  timeSets,     \* number of Model.set_time() calls
  firstA,       \* iteration in which 'a' was first polled, 0 if never
  calls,        \* number of direct calls made (SpecCalls)
  failed        \* exception that left run(): "none" while there is none

vars == <<pc, now, start_time, loop_start, loop_end, sleep_req, model_time,
          model_done, observables, observed, time_text, done_text, c_done,
          click, key, u_done, prev_done, iter, polls, renders, inits,
          closes, waits, timeSets, firstA, calls, failed>>

\* ---- Model ---------------------------------------------------------------

\* Model.update_observables: a fresh dict of the model's current fields
update_observables_stale(obs, time, done) == obs

update_observables(obs, time, done) == [time |-> time, done |-> done]

\* Model.update, lines 110-111: the new value of Model.done
ModelDone_toggle(done, k) == IF k = "a" THEN ~done ELSE done

ModelDone_assign(done, k) == (k = "a")

ModelDone_anykey(done, k) == IF k # "" THEN TRUE ELSE done

ModelDone(done, k) == IF k = "a" THEN TRUE ELSE done

\* ---- Controller ------------------------------------------------------------

\* Controller.update_time, line 159: is time.sleep called
SleepNeeded_reversed(execute_time) == execute_time > framerate

SleepNeeded(execute_time) == execute_time < framerate

\* Controller.update_time, line 160: the argument of time.sleep
SleepDuration_sum(execute_time) == framerate + execute_time

SleepDuration(execute_time) == framerate - execute_time

\* Controller.update_time, line 161: the argument of Model.set_time
Elapsed_swapped(t, start) == start - t

Elapsed(t, start) == t - start

\* Controller.run, line 183: the while condition
LoopCond_always(done) == TRUE

LoopCond(done) == ~done

\* Controller.run, line 185: the statement that follows the loop
AfterLoop_noWait == "close"

AfterLoop == "await_end"

\* View.draw_time: int(observed['time']) in whole seconds (20 frames of framerate ticks)
DrawTime(obs) == obs.time \div (20 * framerate)

\* View.draw_done
DrawDone(obs) == obs.done

\* ---- Init: Controller() has been constructed --------------------------------
InitFields ==
  /\ now = 0
  /\ start_time = 0
  /\ loop_start = 0
  /\ loop_end = 0
  /\ sleep_req = 0
  /\ model_time = 0
  /\ model_done = FALSE
  /\ observables = [time |-> 0, done |-> FALSE]
  /\ observed = << >>
  /\ time_text = 0
  /\ done_text = FALSE
  /\ c_done = FALSE
  /\ click = "None"
  /\ key = ""
  /\ u_done = FALSE
  /\ prev_done = FALSE
  /\ iter = 0
  /\ polls = 0
  /\ renders = 0
  /\ inits = 0
  /\ closes = 0
  /\ waits = 0
  /\ timeSets = 0
  /\ firstA = 0
  /\ calls = 0
  /\ failed = "none"

Init ==
  /\ pc = "init"
  /\ InitFields

\* ---- Controller.run(), statement by statement ---------------------------------

\* line 180: self.view.initialize()
ViewInitialize ==
  /\ pc = "init"
  /\ inits' = inits + 1
  /\ pc' = "await_start"
  /\ UNCHANGED <<now, start_time, loop_start, loop_end, sleep_req, model_time,
                 model_done, observables, observed, time_text, done_text, c_done,
                 click, key, u_done, prev_done, iter, polls, renders,
                 closes, waits, timeSets, firstA, calls, failed>>

\* line 181: self.view.win.getMouse() returns when the user clicks
StartClick ==
  /\ pc = "await_start"
  /\ waits' = waits + 1
  /\ pc' = "set_start"
  /\ UNCHANGED <<now, start_time, loop_start, loop_end, sleep_req, model_time,
                 model_done, observables, observed, time_text, done_text, c_done,
                 click, key, u_done, prev_done, iter, polls, renders, inits,
                 closes, timeSets, firstA, calls, failed>>

\* line 182: self.start_time = time.time()
SetStartTime ==
  /\ pc = "set_start"
  /\ \E d \in 0..MaxDelay :
       /\ now' = now + d
       /\ start_time' = now + d
  /\ pc' = "loop_test"
  /\ UNCHANGED <<loop_start, loop_end, sleep_req, model_time,
                 model_done, observables, observed, time_text, done_text, c_done,
                 click, key, u_done, prev_done, iter, polls, renders, inits,
                 closes, waits, timeSets, firstA, calls, failed>>

LoopEnter_resetsStart ==
  /\ pc = "loop_test"
  /\ LoopCond(c_done)
  /\ iter < MaxIter
  /\ iter' = iter + 1
  /\ \E d \in 0..MaxDelay :
       /\ now' = now + d
       /\ loop_start' = now + d
       /\ start_time' = now + d
  /\ sleep_req' = 0
  /\ pc' = "poll"
  /\ UNCHANGED <<loop_end, model_time,
                 model_done, observables, observed, time_text, done_text, c_done,
                 click, key, u_done, prev_done, polls, renders, inits,
                 closes, waits, timeSets, firstA, calls, failed>>

\* line 183 true, line 171: enter update(), loop_start = time.time()
LoopEnter ==
  /\ pc = "loop_test"
  /\ LoopCond(c_done)
  /\ iter < MaxIter
  /\ iter' = iter + 1
  /\ \E d \in 0..MaxDelay :
       /\ now' = now + d
       /\ loop_start' = now + d
  /\ sleep_req' = 0
  /\ pc' = "poll"
  /\ UNCHANGED <<start_time, loop_end, model_time,
                 model_done, observables, observed, time_text, done_text, c_done,
                 click, key, u_done, prev_done, polls, renders, inits,
                 closes, waits, timeSets, firstA, calls, failed>>

\* line 183 false: leave the loop
LoopExit ==
  /\ pc = "loop_test"
  /\ ~LoopCond(c_done)
  /\ pc' = AfterLoop
  /\ UNCHANGED <<now, start_time, loop_start, loop_end, sleep_req, model_time,
                 model_done, observables, observed, time_text, done_text, c_done,
                 click, key, u_done, prev_done, iter, polls, renders, inits,
                 closes, waits, timeSets, firstA, calls, failed>>

\* line 172: check_user_input()
CheckUserInput ==
  /\ pc = "poll"
  /\ \E c \in Clicks, k \in Keys :
       /\ click' = c
       /\ key' = k
       /\ firstA' = IF firstA = 0 /\ k = "a" THEN iter ELSE firstA
  /\ polls' = polls + 1
  /\ pc' = "model_update"
  /\ UNCHANGED <<now, start_time, loop_start, loop_end, sleep_req, model_time,
                 model_done, observables, observed, time_text, done_text, c_done,
                 u_done, prev_done, iter, renders, inits,
                 closes, waits, timeSets, calls, failed>>

ModelUpdate_clickEnds ==
  /\ pc = "model_update"
  /\ prev_done' = model_done
  /\ model_done' = (ModelDone(model_done, key) \/ click # "None")
  /\ observables' = update_observables(observables, model_time, model_done')
  /\ u_done' = model_done'
  /\ pc' = "view_update"
  /\ UNCHANGED <<now, start_time, loop_start, loop_end, sleep_req, model_time,
                 observed, time_text, done_text, c_done,
                 click, key, iter, polls, renders, inits,
                 closes, waits, timeSets, firstA, calls, failed>>

\* line 173: done = self.model.update(self.click, self.key)
ModelUpdate ==
  /\ pc = "model_update"
  /\ prev_done' = model_done
  /\ model_done' = ModelDone(model_done, key)
  /\ observables' = update_observables(observables, model_time, model_done')
  /\ u_done' = model_done'
  /\ pc' = "view_update"
  /\ UNCHANGED <<now, start_time, loop_start, loop_end, sleep_req, model_time,
                 observed, time_text, done_text, c_done,
                 click, key, iter, polls, renders, inits,
                 closes, waits, timeSets, firstA, calls, failed>>

ViewUpdate_skipWhenDone ==
  /\ pc = "view_update"
  /\ IF u_done
       THEN UNCHANGED <<observed, time_text, done_text, renders>>
       ELSE /\ observed' = <<observables>>
            /\ time_text' = DrawTime(observables)
            /\ done_text' = DrawDone(observables)
            /\ renders' = renders + 1
  /\ pc' = "time_read"
  /\ UNCHANGED <<now, start_time, loop_start, loop_end, sleep_req, model_time,
                 model_done, observables, c_done,
                 click, key, u_done, prev_done, iter, polls, inits,
                 closes, waits, timeSets, firstA, calls, failed>>

\* line 174: self.view.update(self.model.observables)
ViewUpdate ==
  /\ pc = "view_update"
  /\ observed' = <<observables>>
  /\ time_text' = DrawTime(observables)
  /\ done_text' = DrawDone(observables)
  /\ renders' = renders + 1
  /\ pc' = "time_read"
  /\ UNCHANGED <<now, start_time, loop_start, loop_end, sleep_req, model_time,
                 model_done, observables, c_done,
                 click, key, u_done, prev_done, iter, polls, inits,
                 closes, waits, timeSets, firstA, calls, failed>>

\* lines 157-158: loop_end = time.time()
ReadLoopEnd ==
  /\ pc = "time_read"
  /\ \E d \in 0..MaxDelay :
       /\ now' = now + d
       /\ loop_end' = now + d
  /\ pc' = "pace"
  /\ UNCHANGED <<start_time, loop_start, sleep_req, model_time,
                 model_done, observables, observed, time_text, done_text, c_done,
                 click, key, u_done, prev_done, iter, polls, renders, inits,
                 closes, waits, timeSets, firstA, calls, failed>>

\* lines 159-160: if execute_time < self.framerate: time.sleep(...)
PaceSleep ==
  /\ pc = "pace"
  /\ SleepNeeded(loop_end - loop_start)
  /\ sleep_req' = SleepDuration(loop_end - loop_start)
  /\ sleep_req' >= 0                      \* time.sleep raises on a negative argument
  /\ \E o \in 0..MaxOver : now' = now + sleep_req' + o
  /\ pc' = "set_time"
  /\ UNCHANGED <<start_time, loop_start, loop_end, model_time,
                 model_done, observables, observed, time_text, done_text, c_done,
                 click, key, u_done, prev_done, iter, polls, renders, inits,
                 closes, waits, timeSets, firstA, calls, failed>>

\* line 159 false: no sleep
PaceSkip ==
  /\ pc = "pace"
  /\ ~SleepNeeded(loop_end - loop_start)
  /\ pc' = "set_time"
  /\ UNCHANGED <<now, start_time, loop_start, loop_end, sleep_req, model_time,
                 model_done, observables, observed, time_text, done_text, c_done,
                 click, key, u_done, prev_done, iter, polls, renders, inits,
                 closes, waits, timeSets, firstA, calls, failed>>

SetTime_refreshes ==
  /\ pc = "set_time"
  /\ \E d \in 0..MaxDelay :
       /\ now' = now + d
       /\ model_time' = Elapsed(now + d, start_time)
       /\ observables' = update_observables(observables, model_time', model_done)
  /\ timeSets' = timeSets + 1
  /\ pc' = "ret"
  /\ UNCHANGED <<start_time, loop_start, loop_end, sleep_req,
                 model_done, observed, time_text, done_text, c_done,
                 click, key, u_done, prev_done, iter, polls, renders, inits,
                 closes, waits, firstA, calls, failed>>

\* line 161: self.model.set_time(time.time() - self.start_time)
SetTime ==
  /\ pc = "set_time"
  /\ \E d \in 0..MaxDelay :
       /\ now' = now + d
       /\ model_time' = Elapsed(now + d, start_time)
  /\ timeSets' = timeSets + 1
  /\ pc' = "ret"
  /\ UNCHANGED <<start_time, loop_start, loop_end, sleep_req,
                 model_done, observables, observed, time_text, done_text, c_done,
                 click, key, u_done, prev_done, iter, polls, renders, inits,
                 closes, waits, firstA, calls, failed>>

ReturnDone_noValue ==
  /\ pc = "ret"
  /\ c_done' = FALSE                     \* update() returns None
  /\ pc' = "loop_test"
  /\ UNCHANGED <<now, start_time, loop_start, loop_end, sleep_req, model_time,
                 model_done, observables, observed, time_text, done_text,
                 click, key, u_done, prev_done, iter, polls, renders, inits,
                 closes, waits, timeSets, firstA, calls, failed>>

\* lines 176, 184: return done; self.done = self.update()
ReturnDone ==
  /\ pc = "ret"
  /\ c_done' = u_done
  /\ pc' = "loop_test"
  /\ UNCHANGED <<now, start_time, loop_start, loop_end, sleep_req, model_time,
                 model_done, observables, observed, time_text, done_text,
                 click, key, u_done, prev_done, iter, polls, renders, inits,
                 closes, waits, timeSets, firstA, calls, failed>>

\* line 185: self.view.win.getMouse() returns when the user clicks
EndClick ==
  /\ pc = "await_end"
  /\ waits' = waits + 1
  /\ pc' = "close"
  /\ UNCHANGED <<now, start_time, loop_start, loop_end, sleep_req, model_time,
                 model_done, observables, observed, time_text, done_text, c_done,
                 click, key, u_done, prev_done, iter, polls, renders, inits,
                 closes, timeSets, firstA, calls, failed>>

\* line 186: self.view.win.close(); run() returns
Close ==
  /\ pc = "close"
  /\ closes' = closes + 1
  /\ pc' = "returned"
  /\ UNCHANGED <<now, start_time, loop_start, loop_end, sleep_req, model_time,
                 model_done, observables, observed, time_text, done_text, c_done,
                 click, key, u_done, prev_done, iter, polls, renders, inits,
                 waits, timeSets, firstA, calls, failed>>

Next ==
  \/ ViewInitialize
  \/ StartClick
  \/ SetStartTime
  \/ LoopEnter
  \/ LoopExit
  \/ CheckUserInput
  \/ ModelUpdate
  \/ ViewUpdate
  \/ ReadLoopEnd
  \/ PaceSleep
  \/ PaceSkip
  \/ SetTime
  \/ ReturnDone
  \/ EndClick
  \/ Close

Spec == Init /\ [][Next]_vars

\* ---- direct calls on the constructed objects -----------------------------------

InitCalls ==
  /\ pc = "constructed"
  /\ InitFields

CallPcs == {"constructed", "called_update", "called_set_time", "loop_test"}

CallModelUpdate_countsTime ==
  /\ pc \in CallPcs
  /\ calls < MaxCalls
  /\ calls' = calls + 1
  /\ \E c \in Clicks, k \in Keys :
       /\ click' = c
       /\ key' = k
       /\ prev_done' = model_done
       /\ model_done' = ModelDone(model_done, k)
       /\ observables' = update_observables(observables, model_time, model_done')
       /\ u_done' = model_done'
       /\ model_time' = model_time + 1
  /\ pc' = "called_update"
  /\ UNCHANGED <<now, start_time, loop_start, loop_end, sleep_req,
                 observed, time_text, done_text, c_done,
                 iter, polls, renders, inits,
                 closes, waits, timeSets, firstA, failed>>

\* Model.update(click, key), lines 102-113, called with any arguments
CallModelUpdate ==
  /\ pc \in CallPcs
  /\ calls < MaxCalls
  /\ calls' = calls + 1
  /\ \E c \in Clicks, k \in Keys :
       /\ click' = c
       /\ key' = k
       /\ prev_done' = model_done
       /\ model_done' = ModelDone(model_done, k)
       /\ observables' = update_observables(observables, model_time, model_done')
       /\ u_done' = model_done'
  /\ pc' = "called_update"
  /\ UNCHANGED <<now, start_time, loop_start, loop_end, sleep_req, model_time,
                 observed, time_text, done_text, c_done,
                 iter, polls, renders, inits,
                 closes, waits, timeSets, firstA, failed>>

\* Model.set_time(time), lines 94-95, called with any time
CallSetTime ==
  /\ pc \in CallPcs
  /\ calls < MaxCalls
  /\ calls' = calls + 1
  /\ \E t \in 0..MaxDelay : model_time' = t
  /\ timeSets' = timeSets + 1
  /\ pc' = "called_set_time"
  /\ UNCHANGED <<now, start_time, loop_start, loop_end, sleep_req,
                 model_done, observables, observed, time_text, done_text, c_done,
                 click, key, u_done, prev_done, iter, polls, renders, inits,
                 closes, waits, firstA, failed>>

\* line 184, self.done = self.update(), entered whatever self.done is; the
\* statements of Controller.update then run as in Controller.run()
CallUpdate ==
  /\ pc \in CallPcs
  /\ calls < MaxCalls
  /\ calls' = calls + 1
  /\ iter' = iter + 1
  /\ \E d \in 0..MaxDelay :
       /\ now' = now + d
       /\ loop_start' = now + d
  /\ sleep_req' = 0
  /\ pc' = "poll"
  /\ UNCHANGED <<start_time, loop_end, model_time,
                 model_done, observables, observed, time_text, done_text, c_done,
                 click, key, u_done, prev_done, polls, renders, inits,
                 closes, waits, timeSets, firstA, failed>>

NextCalls ==
  \/ CallModelUpdate
  \/ CallSetTime
  \/ CallUpdate
  \/ CheckUserInput
  \/ ModelUpdate
  \/ ViewUpdate
  \/ ReadLoopEnd
  \/ PaceSleep
  \/ PaceSkip
  \/ SetTime
  \/ ReturnDone

SpecCalls == InitCalls /\ [][NextCalls]_vars

\* ---- claims ----------------------------------------------------------------------

\* C1: Model.update(click, key) with key = 'a' returns true and leaves
\* Model.done true, whatever done and click were before the call.
C1_UpdateA_SetsDone ==
  (pc = "called_update" /\ key = "a") => (u_done = TRUE /\ model_done = TRUE)

\* the call was made on a model that was already done
C1_Witness ==
  pc = "called_update" /\ key = "a" /\ prev_done = TRUE /\ click = "pt" /\ u_done

\* C2: Model.update(click, key) with any key other than 'a' (no key included)
\* returns the prior done and leaves Model.done as it was.
C2_UpdateOther_KeepsDone ==
  (pc = "called_update" /\ key # "a") =>
      (u_done = prev_done /\ model_done = prev_done)

\* both prior values of done occur; this is the one on a finished model
C2_Witness ==
  pc = "called_update" /\ key = "b" /\ prev_done = TRUE /\ model_done = TRUE

\* C3: once Model.done is true it is never false in a later state, and the
\* same for Controller.done, whatever inputs are polled afterwards.
C3_DoneIsTerminal ==
  [][(model_done => model_done') /\ (c_done => c_done')]_vars

\* a loop body has run to its end on a controller that was already done, with
\* a key other than 'a'
C3_Witness ==
  pc = "loop_test" /\ iter >= 2 /\ prev_done = TRUE /\ key # "a" /\ c_done /\ model_done

\* the states of the loop in Controller.run(): AwaitingStart up to the
\* assignment of start_time, Finished once the while loop has been left
AwaitingStartPcs == {"init", "await_start", "set_start"}

FinishedPcs == {"await_end", "close", "returned"}

Phase ==
  IF pc \in AwaitingStartPcs THEN 1 ELSE IF pc \in FinishedPcs THEN 3 ELSE 2

\* C4, the state part: no 'a' polled so far means Running at most and done
\* false; 'a' polled in iteration k means k iterations, k polls and at most
\* k renders ever, and the loop test that follows finds done true
C4_Counts ==
  /\ firstA = 0 => (Phase # 3 /\ ~c_done /\ ~model_done)
  /\ firstA # 0 => (iter = firstA /\ polls = firstA /\ renders <= firstA)
  /\ (firstA # 0 /\ pc = "loop_test") => c_done
  /\ Phase = 3 => (firstA # 0 /\ c_done /\ renders = firstA)
  /\ Phase = 1 => (iter = 0 /\ polls = 0 /\ renders = 0)

\* C4: the loop goes AwaitingStart -> Running -> Finished, one phase at a
\* time and never back; it stays in Running with done false as long as no
\* polled key is 'a', and when 'a' is polled in iteration k exactly k
\* iterations run and nothing is polled or rendered after iteration k.
C4_LoopPhases ==
  /\ []C4_Counts
  /\ [][Phase' = Phase \/ Phase' = Phase + 1]_vars

\* three iterations without 'a', 'a' in the fourth, then Finished is reached
C4_Witness ==
  pc = "await_end" /\ firstA = 4 /\ iter = 4 /\ renders = 4 /\ polls = 4

\* 'a' on the first iteration: Finished after exactly one iteration
C4_WitnessFirst ==
  pc = "await_end" /\ firstA = 1 /\ iter = 1

\* C5: when the pacing step (lines 157-160) is over, at least framerate has
\* passed on the clock since loop_start; and if framerate had already passed
\* when loop_end was read, time.sleep was not called and no time was spent.
C5_Pace ==
  pc = "set_time" =>
    /\ now >= loop_start + framerate
    /\ (loop_end - loop_start >= framerate) => (sleep_req = 0 /\ now = loop_end)
    /\ (loop_end - loop_start < framerate) =>
          (sleep_req = framerate - (loop_end - loop_start))

\* the iteration was behind schedule and the pacing step did not sleep
C5_Witness ==
  pc = "set_time" /\ loop_end - loop_start > framerate /\ sleep_req = 0

\* the iteration was ahead of schedule and the pacing step slept
C5_WitnessSlept ==
  pc = "set_time" /\ loop_end - loop_start < framerate /\ sleep_req > 0

\* C6: with a clock that never goes backwards, Model.time is never negative
\* and no step of a run makes it smaller.
C6_TimeMonotone ==
  [][model_time >= 0 /\ model_time' >= model_time]_vars

\* the time has been set in two successive iterations
C6_Witness ==
  timeSets >= 2 /\ model_time > 0 /\ pc = "ret"

\* the clock advance since start_time that is not the requested sleep
Overhead == (now - start_time) - sleep_req

C8_CloseOnce ==
  /\ closes <= 1
  /\ closes = 1 <=> pc = "returned"
  /\ Phase # 3 => closes = 0
  /\ pc = "await_end" => (closes = 0 /\ waits = 1)
  /\ pc \in {"close", "returned"} => waits = 2

\* run() has returned after the second click and one close()
C8_Witness ==
  pc = "returned" /\ closes = 1 /\ waits = 2 /\ c_done

\* C9 as stated: when the view has rendered iteration N and the pacing step
\* has not run yet, Model.time has already been set in iteration N.
C9_Original ==
  pc \in {"time_read", "pace"} => timeSets = iter

\* C9 amended: in every iteration Model.time is set to the clock minus
\* start_time after the view has rendered and after the pacing step, so the
\* time rendered in iteration N is the one set in iteration N-1 (the initial
\* 0 in iteration 1).
C9_TimeSetAfterRender ==
  /\ pc \in {"time_read", "pace", "set_time"} =>
        /\ renders = iter
        /\ timeSets = iter - 1
        /\ observed[1].time = model_time
        /\ iter = 1 => observed[1].time = 0
  /\ pc = "ret" =>
        /\ timeSets = iter
        /\ model_time = now - start_time
        /\ model_time >= observed[1].time + framerate

\* iteration 2 has rendered the time set in iteration 1
C9_Witness ==
  pc = "pace" /\ iter = 2 /\ timeSets = 1 /\ observed[1].time > 0

\* C10: the done value handed to the view in iteration N is the one
\* Model.update produced from the key polled in iteration N.
C10_RenderedDone ==
  pc \in {"time_read", "pace", "set_time", "ret"} =>
    /\ polls = iter /\ renders = iter
    /\ observed[1].done = u_done
    /\ observed[1].done = model_done
    /\ observed[1].done = ModelDone(prev_done, key)
    /\ done_text = observed[1].done
    /\ observed[1].done <=> (key = "a")

\* the view has been handed done = true in a later iteration than the first
C10_Witness ==
  pc = "time_read" /\ iter = 2 /\ key = "a" /\ observed[1].done

\* the view has been handed done = false for a key other than 'a'
C10_WitnessOther ==
  pc = "time_read" /\ iter = 2 /\ key = "b" /\ ~observed[1].done

\* C11: View.initialize() is called exactly once, before the loop is in
\* Running and so before any render; View.update() is called exactly once in
\* every iteration, the one in which done becomes true included.
C11_PresenterProtocol ==
  /\ inits <= 1
  /\ (inits = 0) <=> (pc = "init")
  /\ Phase = 1 => renders = 0
  /\ pc \in {"poll", "model_update", "view_update"} => renders = iter - 1
  /\ pc \in {"time_read", "pace", "set_time", "ret", "loop_test"} => renders = iter
  /\ pc \in FinishedPcs => (renders = iter /\ renders = firstA)

\* the iteration in which done became true has been rendered, after two others
C11_Witness ==
  pc = "ret" /\ u_done /\ iter = 3 /\ renders = 3 /\ inits = 1 /\ observed[1].done

\* ---- run() under fair scheduling ------------------------------------------------

\* the statements of run() that do not wait for the user: the single thread
\* executes the next one as long as there is one
ProgramStep ==
  \/ ViewInitialize
  \/ SetStartTime
  \/ LoopEnter
  \/ LoopExit
  \/ CheckUserInput
  \/ ModelUpdate
  \/ ViewUpdate
  \/ ReadLoopEnd
  \/ PaceSleep
  \/ PaceSkip
  \/ SetTime
  \/ ReturnDone
  \/ Close

\* run() with a thread that keeps running and a user who eventually clicks
\* at each of the two getMouse() waits
SpecFair ==
  /\ Init
  /\ [][Next]_vars
  /\ WF_vars(ProgramStep)
  /\ WF_vars(StartClick)
  /\ WF_vars(EndClick)

\* C12: once 'a' has been polled (and the clicks arrive), run() eventually
\* closes the window and returns; as long as no 'a' has been polled the loop
\* is not left, and every loop test reached without an 'a' is followed by
\* another iteration.
C12_Termination ==
  /\ (firstA # 0) ~> (pc = "returned" /\ closes = 1)
  /\ [](firstA = 0 => pc \notin FinishedPcs)
  /\ (pc = "loop_test" /\ firstA = 0 /\ iter < MaxIter) ~> (pc = "poll")

\* run() has returned after an 'a' that came in a later iteration
C12_Witness ==
  pc = "returned" /\ closes = 1 /\ firstA = 3 /\ waits = 2

\* ---- run() with failing collaborators ----------------------------------------

\* line 172: win.checkMouse() or win.checkKey() raises (GraphicsError on a
\* closed window); there is no try statement in the file, so the exception
\* leaves check_user_input, update and run
PollFails_swallowed ==
  /\ pc = "poll"
  /\ polls' = polls + 1
  /\ failed' = "InputUnavailable"
  /\ pc' = "model_update"
  /\ UNCHANGED <<now, start_time, loop_start, loop_end, sleep_req, model_time,
                 model_done, observables, observed, time_text, done_text, c_done,
                 click, key, u_done, prev_done, iter, renders, inits,
                 closes, waits, timeSets, firstA, calls>>

PollFails ==
  /\ pc = "poll"
  /\ polls' = polls + 1
  /\ \E c \in Clicks \cup {click} : click' = c   \* checkMouse may have returned
  /\ failed' = "InputUnavailable"
  /\ pc' = "raised"
  /\ UNCHANGED <<now, start_time, loop_start, loop_end, sleep_req, model_time,
                 model_done, observables, observed, time_text, done_text, c_done,
                 key, u_done, prev_done, iter, renders, inits,
                 closes, waits, timeSets, firstA, calls>>

\* lines 171, 157, 161: time.time() raises inside an iteration; the exception
\* leaves update_time, update and run
ClockFails ==
  /\ \/ /\ pc \in {"time_read", "set_time"}
        /\ iter' = iter
     \/ /\ pc = "loop_test"
        /\ LoopCond(c_done)
        /\ iter < MaxIter
        /\ iter' = iter + 1
  /\ failed' = "ClockUnavailable"
  /\ pc' = "raised"
  /\ UNCHANGED <<now, start_time, loop_start, loop_end, sleep_req, model_time,
                 model_done, observables, observed, time_text, done_text, c_done,
                 click, key, u_done, prev_done, polls, renders, inits,
                 closes, waits, timeSets, firstA, calls>>

NextFaulty ==
  \/ Next
  \/ PollFails
  \/ ClockFails

SpecFaulty == Init /\ [][NextFaulty]_vars

\* C13: when polling the input or reading the clock fails in an iteration,
\* the exception leaves run() at once: run() is at no statement any more,
\* nothing was closed or marked done, and no later step (no retry, no poll,
\* no render, no further iteration) is taken.
C13_FailFast ==
  /\ [](failed # "none" => (pc = "raised" /\ closes = 0 /\ ~c_done))
  /\ [](failed = "InputUnavailable" => (polls = iter /\ renders = iter - 1))
  /\ [](pc = "raised" => failed # "none")
  /\ [][failed = "none"]_vars

\* the poll of the second iteration has failed, after one rendered iteration
C13_Witness ==
  pc = "raised" /\ failed = "InputUnavailable" /\ iter = 2 /\ renders = 1

\* the clock has failed after the render of an iteration
C13_WitnessClock ==
  pc = "raised" /\ failed = "ClockUnavailable" /\ renders = iter /\ iter >= 1

\* C14: Controller.start_time keeps its initial 0 until the start click has
\* been received, is assigned the clock once, by line 182 before the first
\* iteration, and no step of Running or Finished changes it.
C14_StartTimeOnce ==
  /\ [](pc \in AwaitingStartPcs => start_time = 0)
  /\ [](iter >= 1 => start_time <= loop_start)
  /\ [][start_time' # start_time => (pc = "set_start" /\ waits = 1 /\ iter = 0)]_vars
  /\ [][pc = "set_start" => (start_time' = now' /\ pc' = "loop_test")]_vars

\* run() has returned after several iterations with the start_time it was given
C14_Witness ==
  pc = "returned" /\ start_time > 0 /\ iter >= 2 /\ loop_start > start_time

\* C15: a click polled in Running changes nothing: after Model.update the
\* done flag is the prior done or key = 'a', the elapsed time set is the clock
\* minus start_time, and the loop test that follows sees done exactly when the
\* key was 'a', whatever click was polled; the poll itself writes only click
\* and key; getMouse() returns only at the two waits.
C15_ClickIgnored ==
  /\ [](pc \in {"view_update", "time_read", "pace", "set_time", "ret"} =>
          ((model_done <=> (prev_done \/ key = "a")) /\ u_done = model_done))
  /\ [](pc = "ret" => model_time = now - start_time)
  /\ []((pc = "loop_test" /\ iter >= 1) => (c_done <=> key = "a"))
  /\ [](Phase = 2 => waits = 1)
  /\ [][pc = "poll" => UNCHANGED <<model_done, model_time, observables, c_done,
                                   start_time, now, waits, closes, iter>>]_vars
  /\ [][waits' # waits => pc \in {"await_start", "await_end"}]_vars

\* an iteration in which a click was polled with no key has ended: still Running
C15_Witness ==
  pc = "loop_test" /\ iter = 2 /\ click = "pt" /\ key = "" /\ ~c_done /\ ~model_done

\* the same with no click polled
C15_WitnessNoClick ==
  pc = "loop_test" /\ iter = 2 /\ click = "None" /\ key = "" /\ ~c_done /\ ~model_done

\* C16: Model.update(click, key) leaves Model.time as it is, for every click
\* and key, and so does the poll; Model.time changes only in a set_time call,
\* the direct one or the one of Controller.update_time (line 161).
C16_OnlySetTimeWritesTime ==
  /\ [][(pc' = "called_update" \/ pc = "model_update" \/ pc = "poll")
          => model_time' = model_time]_vars
  /\ [][model_time' # model_time =>
          /\ pc' = "called_set_time" \/ (pc = "set_time" /\ pc' = "ret")
          /\ timeSets' = timeSets + 1]_vars

\* Model.update has been called with key 'a' and a click on a model whose time
\* had been set before
C16_Witness ==
  pc = "called_update" /\ model_time > 0 /\ key = "a" /\ click = "pt" /\ timeSets >= 1

\* C17: in Running, every set_time call makes Model.time strictly larger, by at
\* least framerate, than it was after the previous iteration (than the initial
\* 0 in the first one), because the pacing step makes every iteration last at
\* least framerate > 0.
C17_TimeStrictlyIncreases ==
  /\ [][(pc = "set_time" /\ pc' = "ret") =>
          (model_time' > model_time /\ model_time' >= model_time + framerate)]_vars
  /\ [](pc \in {"ret", "loop_test"} => model_time >= iter * framerate)

\* three iterations that each lasted exactly framerate
C17_Witness ==
  pc = "ret" /\ timeSets = 3 /\ model_time = 3 * framerate

\* C18: whenever the while condition of run() is evaluated, Controller.done
\* equals Model.done, so the loop is left exactly when the model is done.
C18_DoneFlagsAgree ==
  /\ [](pc = "loop_test" => c_done = model_done)
  /\ [](pc \in FinishedPcs => (c_done /\ model_done))
  /\ [][pc = "loop_test" =>
          \/ model_done /\ pc' = "await_end"
          \/ ~model_done /\ pc' = "poll"]_vars

\* the loop test is reached with both flags true, after iterations in which
\* both were false
C18_Witness ==
  pc = "loop_test" /\ iter = 3 /\ c_done /\ model_done /\ firstA = 3

\* C19: the time handed to the view is one iteration behind the model: 0 in
\* iteration 1; in every iteration the value Model.time had before this
\* iteration's set_time, which then makes Model.time larger; and once the loop
\* is left the observables (and the view) still hold that older time, not the
\* model's final time.
C19_RenderedTimeLags ==
  /\ []((pc \in {"time_read", "pace", "set_time", "ret"} /\ iter = 1) =>
          (observed[1].time = 0 /\ time_text = 0))
  /\ [][pc = "view_update" => observed'[1].time = model_time]_vars
  /\ [][(pc = "set_time" /\ pc' = "ret") =>
          /\ observables'.time = model_time
          /\ observed'[1].time = model_time
          /\ observables'.time < model_time']_vars
  /\ [](pc \in FinishedPcs =>
          /\ observed[1] = observables
          /\ observables.time # model_time
          /\ observables.time + framerate <= model_time)

\* the loop was left after two iterations: the observables hold the time set
\* in iteration 1, the model the time set in iteration 2
C19_Witness ==
  pc = "await_end" /\ iter = 2 /\ observables.time > 0 /\ observables.time < model_time

====
